---------------------------- MODULE Spec2Model ----------------------------
(***************************************************************************)
(* State-machine model of the AEB/FCW KPI engine: the clamped threshold    *)
(* interpolation, the AEB and FCW event boundary detectors, the window     *)
(* extractor, the AEB pipeline's stages, the KPI calculators (brake mode,  *)
(* latency, distance, FCW brake jerk), the calibration scaling and the     *)
(* derivative-threshold AEB detection policy.                              *)
(*                                                                         *)
(* Times are integers (one unit = one tick of the recording's time base);  *)
(* an interpolated threshold is an exact rational <<num, den>>, den > 0.   *)
(***************************************************************************)
EXTENDS Integers, Sequences, FiniteSets, TLC

VARIABLES
    \* ---- threshold interpolator (process_calibratables.py)
    table,        \* the calibratable handed to interpolate_threshold_clamped
    x_query,      \* the query (vehicle speed)
    interp_pc,    \* "ready" | "returned" | "raised"
    interp_y,     \* the value returned, <<num, den>>; <<0, 0>> when none
    \* ---- event boundary detectors (utils/event_detector/aeb.py, fcw.py)
    detector,     \* "aeb" | "fcw" | "none": the detector this run calls
    time,         \* the recording's time vector
    request,      \* the request signal (aebRequest / fcwRequest)
    post_time,    \* detect_aeb_events' post_time
    merge_window, \* detect_fcw_events' merge_window
    det_pc,       \* "ready" | "returned" | "raised" | "remerged"
    det_out,      \* the (start_times, end_times) returned
    remerged,     \* the merge step applied to det_out once more
    \* ---- window extractor (pipeline/base/base_event_segmenter.py)
    start_times,  \* the detected start times handed to extract_events
    end_times,    \* the detected end times (may be fewer than the starts)
    pre_time,     \* self.pre_time
    seg_post_time,\* self.post_time of the segmenter
    t_min,        \* mdf.time[0]
    t_max,        \* mdf.time[-1]
    seg_j,        \* the loop index j of extract_events (0-based)
    computed,     \* <<start_sec, stop_sec>> computed for each event so far
    saved,        \* the chunks saved: [j, nn, start, stop]
    seg_outcome,  \* per event gone through: "invalid" | "saved" | "dropped"
    seg_pc,       \* "ready" | "loop" | "done"
    \* ---- AEB pipeline (pipeline/aeb/aeb_pipeline.py, aeb_kpi_extractor.py)
    num_files,    \* number of *_extracted.mf4 recordings found
    calib_ok,     \* every calibratable the extractor needs is a 2 x N table
    file_status,  \* per recording: "pending" | "detected" | "windowed" | "skipped"
    file_idx,     \* recordings process_all_files has finished with
    cur_events,   \* events detected in the recording being processed
    chunks,       \* the chunk files saved so far: the recording of each
    chunk_idx,    \* chunks process_all_mdf_files has gone through
    row_state,    \* per KPI table row: "labelled" | "partial" | "complete"
    kpi_table,    \* self.kpi_table: per row, the cell of each column
    pipe_pc,      \* "detect" | "extract" | "kpi" | "done" | "failed"
    \* ---- KPI calculators of one chunk (utils/kpis/aeb, event_detector/aeb.py)
    aebTargetDecel, \* mdf.aebTargetDecel, in 0.1 m/s^2
    chunk_time,   \* mdf.time of the chunk
    aeb_start_idx,\* <<>> for None, <<i>> for the 0-based sample index i
    start_by,     \* "find_aeb_intv_start" | "caller" | "none": who set it
    calc_row,     \* the chunk's row of the KPI table
    calc_pc,      \* the next step of the loop body, "done" or "raised"
    \* ---- AEB latency calculator (utils/kpis/aeb/latency.py)
    lat_time,     \* mdf.time of the chunk
    lat_tgt_decel,\* mdf.aebTargetDecel, in 0.1 m/s^2
    longActAccelFlt, \* mdf.longActAccelFlt
    lat_start_idx,\* the 0-based aeb_start_idx handed to compute_all
    lat_row,      \* aebSysRespTime, aebDeadTime, commLatency of the row
    lat_pc,       \* "ready" | "done"
    \* ---- FCW brake jerk calculator (utils/kpis/fcw/brake_jerk.py)
    bj_time,      \* mdf.time of the chunk, in ticks of 0.1 s
    bj_accel,     \* mdf.longActAccelFlt
    fcwRequest,   \* mdf.fcwRequest
    egoSpeedKph,  \* mdf.egoSpeedKph
    bj_row,       \* the five brake-jerk columns of the row
    bj_pc,        \* "ready" | "done" | "raised"
    \* ---- AEB distance calculator (utils/kpis/aeb/distance.py)
    longGap,      \* mdf.longGap
    dist_start_idx, \* aeb_start_idx: <<>> for None, <<i>> for index i
    dist_end_idx, \* aeb_end_idx: <<>> for None, <<i>> for index i
    dist_row,     \* the four distance columns of the row
    dist_pc,      \* "ready" | "done"
    \* ---- calibration scaling (config/config.py, python/.../kpi_extractor.py)
    cal_loaded,   \* calibratables["PedalPosProIncrease_Th"]["y"] as loaded
    cal_y,        \* the same list now, in thousandths; <<>> is NaN
    cal_first,    \* the list after the first _apply_calibration_scaling
    cal_applied,  \* calls of _apply_calibration_scaling so far
    cal_extracted,\* TRUE once KpiExtractor.__init__ has scaled the list
    \* ---- derivative-threshold AEB policy (pipeline/aeb/aeb_event_segmenter.py)
    df_time,      \* df["time"] of the recording
    df_decel,     \* df["aebTargetDecel"], in m/s^2
    deriv_pc      \* "ready" | "detected"

interpVars == <<table, x_query, interp_pc, interp_y>>

detVars == <<detector, time, request, post_time, merge_window, det_pc,
             det_out, remerged>>

segVars == <<start_times, end_times, pre_time, seg_post_time, t_min, t_max,
             seg_j, computed, saved, seg_outcome, seg_pc>>

pipeVars == <<num_files, calib_ok, file_status, file_idx, cur_events, chunks,
              chunk_idx, row_state, kpi_table, pipe_pc>>

calcVars == <<aebTargetDecel, chunk_time, aeb_start_idx, start_by, calc_row,
              calc_pc>>

latVars == <<lat_time, lat_tgt_decel, longActAccelFlt, lat_start_idx, lat_row,
             lat_pc>>

jerkVars == <<bj_time, bj_accel, fcwRequest, egoSpeedKph, bj_row, bj_pc>>

distVars == <<longGap, dist_start_idx, dist_end_idx, dist_row, dist_pc>>

calVars == <<cal_loaded, cal_y, cal_first, cal_applied, cal_extracted>>

derivVars == <<df_time, df_decel, deriv_pc>>

kpiVars == <<latVars, jerkVars, distVars, calVars, derivVars>>

coreVars == <<interpVars, detVars, segVars, pipeVars, calcVars>>

vars == <<coreVars, kpiVars>>

\* ------------------------------------------------------------------------
\* Generic helpers
\* ------------------------------------------------------------------------

Min2(a, b) == IF a <= b THEN a ELSE b

Max2(a, b) == IF a >= b THEN a ELSE b

SeqsUpTo(S, lo, hi) == UNION {[1..n -> S] : n \in lo..hi}

\* ------------------------------------------------------------------------
\* Event boundary detectors
\* ------------------------------------------------------------------------

MaxLen == 5
MaxPostTime == 2
MaxMergeWindow == 2
DefaultPostTime == 3
DefaultMergeWindow == 2

\* Sample periods between consecutive timestamps (the time base is strictly
\* increasing, not necessarily uniform).
SamplePeriods == {1, 3}

RequestLevels == {0, 1, 2, 3}

NoEvents == <<<<>>, <<>>>>

\* np.where(mask)[0]: the indices of a set, in increasing order.
RECURSIVE np_where(_)
np_where(S) ==
    IF S = {} THEN <<>>
    ELSE LET m == CHOOSE x \in S : \A y \in S : x <= y
         IN  <<m>> \o np_where(S \ {m})

\* time[idx] for an index array
TimesAt(t, idx) == [k \in 1..Len(idx) |-> t[idx[k]]]

\* ---- detect_aeb_events ---------------------------------------------------

\* for i in range(1, len(req)): curr in (1, 2) and prev not in (1, 2)
aeb_is_start(req, i) ==
    /\ i >= 2
    /\ req[i] \in {1, 2}
    /\ req[i - 1] \notin {1, 2}

\* prev in (1, 2, 3) and curr == 0
aeb_is_end(req, i) ==
    /\ i >= 2
    /\ req[i - 1] \in {1, 2, 3}
    /\ req[i] = 0

aeb_start_indices(req) ==
    np_where({i \in 1..Len(req) : aeb_is_start(req, i)})

aeb_end_indices(req) ==
    np_where({i \in 1..Len(req) : aeb_is_end(req, i)})

\* Faulty variant: every detected end is a candidate, also one before the start
e_candidates_any(end_indices, s) == end_indices

\* e_candidates = [e for e in end_indices if e > s]
e_candidates(end_indices, s) ==
    SelectSeq(end_indices, LAMBDA e : e > s)

\* The end time paired with the start at index s.
aeb_end_time(t, end_indices, s, post) ==
    LET cand == e_candidates(end_indices, s) IN
    IF cand # <<>> THEN t[cand[1]]
    ELSE Min2(t[Len(t)], t[s] + post)

detect_aeb_events(t, req, post) ==
    LET si == aeb_start_indices(req)
        ei == aeb_end_indices(req)
    IN  <<TimesAt(t, si),
          [k \in 1..Len(si) |-> aeb_end_time(t, ei, si[k], post)]>>

\* ---- detect_fcw_events ---------------------------------------------------

\* fcw_prev = np.roll(fcw, 1); fcw_prev[0] = fcw[0]
fcw_prev(fcw, i) == IF i = 1 THEN fcw[1] ELSE fcw[i - 1]

\* Rising edge: 0 -> 2 or 3
fcw_start_idx(fcw) ==
    np_where({i \in 1..Len(fcw) : fcw_prev(fcw, i) = 0 /\ fcw[i] \in {2, 3}})

\* Falling edge: 2/3 -> 0
fcw_end_idx(fcw) ==
    np_where({i \in 1..Len(fcw) : fcw_prev(fcw, i) \in {2, 3} /\ fcw[i] = 0})

\* end_times after the unclosed-last-event append
fcw_end_times(t, fcw) ==
    LET st == TimesAt(t, fcw_start_idx(fcw))
        en == TimesAt(t, fcw_end_idx(fcw))
    IN  IF Len(st) > Len(en) THEN Append(en, t[Len(t)]) ELSE en

\* The merge loop reads end_times[i] for every i < len(start_times): with
\* fewer ends than starts that read is out of range (IndexError).
merge_raises(starts, ends) == Len(starts) > 0 /\ Len(ends) < Len(starts)

\* Faulty variant: merges only when the gap is strictly below merge_window
RECURSIVE merge_loop_strict(_, _, _, _, _, _)
merge_loop_strict(starts, ends, mw, i, cur_s, cur_e) ==
    IF i > Len(starts) THEN <<<<cur_s>>, <<cur_e>>>>
    ELSE IF starts[i] - cur_e < mw
         THEN merge_loop_strict(starts, ends, mw, i + 1, cur_s, ends[i])
         ELSE LET rest == merge_loop_strict(starts, ends, mw, i + 1,
                                            starts[i], ends[i])
              IN  <<<<cur_s>> \o rest[1], <<cur_e>> \o rest[2]>>

\* Faulty variant: the accumulator is not flushed after the loop
RECURSIVE merge_loop_noflush(_, _, _, _, _, _)
merge_loop_noflush(starts, ends, mw, i, cur_s, cur_e) ==
    IF i > Len(starts) THEN <<<<>>, <<>>>>
    ELSE IF starts[i] - cur_e <= mw
         THEN merge_loop_noflush(starts, ends, mw, i + 1, cur_s, ends[i])
         ELSE LET rest == merge_loop_noflush(starts, ends, mw, i + 1,
                                             starts[i], ends[i])
              IN  <<<<cur_s>> \o rest[1], <<cur_e>> \o rest[2]>>

\* The merge loop from event i on, carrying (cur_s, cur_e).
RECURSIVE merge_loop(_, _, _, _, _, _)
merge_loop(starts, ends, mw, i, cur_s, cur_e) ==
    IF i > Len(starts) THEN <<<<cur_s>>, <<cur_e>>>>
    ELSE IF starts[i] - cur_e <= mw
         THEN merge_loop(starts, ends, mw, i + 1, cur_s, ends[i])
         ELSE LET rest == merge_loop(starts, ends, mw, i + 1,
                                     starts[i], ends[i])
              IN  <<<<cur_s>> \o rest[1], <<cur_e>> \o rest[2]>>

\* Merge events that occur close together.
merge_events(starts, ends, mw) ==
    IF Len(starts) = 0 THEN NoEvents
    ELSE merge_loop(starts, ends, mw, 2, starts[1], ends[1])

fcw_raises(t, fcw) ==
    merge_raises(TimesAt(t, fcw_start_idx(fcw)), fcw_end_times(t, fcw))

detect_fcw_events(t, fcw, mw) ==
    merge_events(TimesAt(t, fcw_start_idx(fcw)), fcw_end_times(t, fcw), mw)

\* ---- inputs ---------------------------------------------------------------

\* Strictly increasing time vectors of n samples starting at 0.
RECURSIVE TimeVectors(_)
TimeVectors(n) ==
    IF n = 1 THEN {<<0>>}
    ELSE {Append(t, t[Len(t)] + d) : t \in TimeVectors(n - 1),
                                     d \in SamplePeriods}

\* The FCW request of the worked example, sampled at 1 Hz.
ExampleFcwRequest == <<0, 0, 2, 2, 0, 0, 3, 3, 0>>
ExampleFcwTime == <<0, 1, 2, 3, 4, 5, 6, 7, 8>>

DetInit ==
    /\ \/ \E n \in 1..MaxLen :
              /\ time \in TimeVectors(n)
              /\ request \in [1..n -> RequestLevels]
       \/ /\ time = ExampleFcwTime
          /\ request = ExampleFcwRequest
    /\ \/ /\ detector = "aeb"
          /\ post_time \in 0..MaxPostTime
          /\ merge_window = DefaultMergeWindow
       \/ /\ detector = "fcw"
          /\ post_time = DefaultPostTime
          /\ merge_window \in 1..MaxMergeWindow
    /\ det_pc = "ready"
    /\ det_out = NoEvents
    /\ remerged = NoEvents

DetIdle ==
    /\ detector = "none"
    /\ time = <<0>>
    /\ request = <<0>>
    /\ post_time = DefaultPostTime
    /\ merge_window = DefaultMergeWindow
    /\ det_pc = "returned"
    /\ det_out = NoEvents
    /\ remerged = NoEvents

DetectAebEvents ==
    /\ detector = "aeb"
    /\ det_pc = "ready"
    /\ det_out' = detect_aeb_events(time, request, post_time)
    /\ det_pc' = "returned"
    /\ UNCHANGED <<detector, time, request, post_time, merge_window, remerged>>
    /\ UNCHANGED <<interpVars, segVars, pipeVars, calcVars, kpiVars>>

DetectFcwEvents ==
    /\ detector = "fcw"
    /\ det_pc = "ready"
    /\ ~fcw_raises(time, request)
    /\ det_out' = detect_fcw_events(time, request, merge_window)
    /\ det_pc' = "returned"
    /\ UNCHANGED <<detector, time, request, post_time, merge_window, remerged>>
    /\ UNCHANGED <<interpVars, segVars, pipeVars, calcVars, kpiVars>>

DetectFcwRaise ==
    /\ detector = "fcw"
    /\ det_pc = "ready"
    /\ fcw_raises(time, request)
    /\ det_pc' = "raised"
    /\ UNCHANGED <<detector, time, request, post_time, merge_window, det_out,
                   remerged>>
    /\ UNCHANGED <<interpVars, segVars, pipeVars, calcVars, kpiVars>>

\* The merge step applied to an already merged (starts, ends) list.
MergeAgain ==
    /\ detector = "fcw"
    /\ det_pc = "returned"
    /\ remerged' = merge_events(det_out[1], det_out[2], merge_window)
    /\ det_pc' = "remerged"
    /\ UNCHANGED <<detector, time, request, post_time, merge_window, det_out>>
    /\ UNCHANGED <<interpVars, segVars, pipeVars, calcVars, kpiVars>>

\* ------------------------------------------------------------------------
\* Window extractor
\* ------------------------------------------------------------------------

MaxTime == 4
MaxEvents == 2
MaxPad == 2

\* start_sec = max(start_time - self.pre_time, t_min)
window_start(start_time, pre, tmin) == Max2(start_time - pre, tmin)

\* stop_sec = min(end_times[j] + post, t_max) if j < len(end_times)
\*            else min(start_time + post, t_max)        (j is 0-based)
\* Faulty variant: the detected end is ignored
window_stop_from_start(starts, ends, j, post, tmax) ==
    Min2(starts[j + 1] + post, tmax)

window_stop(starts, ends, j, post, tmax) ==
    IF j < Len(ends) THEN Min2(ends[j + 1] + post, tmax)
    ELSE Min2(starts[j + 1] + post, tmax)

\* if stop_sec <= start_sec: skip
\* Faulty variant: a zero-width window is kept
window_invalid_strict(start_sec, stop_sec) == stop_sec < start_sec

window_invalid(start_sec, stop_sec) == stop_sec <= start_sec

IsStrictlyIncreasing(q) == \A i \in 1..(Len(q) - 1) : q[i] < q[i + 1]

IsNonDecreasing(q) == \A i \in 1..(Len(q) - 1) : q[i] <= q[i + 1]

\* The recording's first timestamp.
FirstTimestamps == {0, 1}

\* The window request of the worked example: start 10.0, no end, pre_time 6.0,
\* post_time 3.0, source [0.0, 12.0].
ExampleSegInit ==
    /\ start_times = <<10>>
    /\ end_times = <<>>
    /\ pre_time = 6
    /\ seg_post_time = 3
    /\ t_min = 0
    /\ t_max = 12

SegInit ==
    /\ \/ /\ t_min \in FirstTimestamps
          /\ t_max \in t_min..MaxTime
          /\ start_times \in {q \in SeqsUpTo(t_min..t_max, 0, MaxEvents) :
                                  IsStrictlyIncreasing(q)}
          /\ end_times \in {q \in SeqsUpTo(t_min..(t_max + 1), 0, MaxEvents) :
                                IsNonDecreasing(q)}
          /\ pre_time \in 0..MaxPad
          /\ seg_post_time \in 0..MaxPad
       \/ ExampleSegInit
    /\ seg_j = 0
    /\ computed = <<>>
    /\ saved = <<>>
    /\ seg_outcome = <<>>
    /\ seg_pc = "ready"

SegIdle ==
    /\ start_times = <<>>
    /\ end_times = <<>>
    /\ pre_time = 6
    /\ seg_post_time = 3
    /\ t_min = 0
    /\ t_max = 0
    /\ seg_j = 0
    /\ computed = <<>>
    /\ saved = <<>>
    /\ seg_outcome = <<>>
    /\ seg_pc = "done"

SegInputs == <<start_times, end_times, pre_time, seg_post_time, t_min, t_max>>

\* if len(start_times) == 0: return
ExtractNoEvents ==
    /\ seg_pc = "ready"
    /\ Len(start_times) = 0
    /\ seg_pc' = "done"
    /\ UNCHANGED <<SegInputs, seg_j, computed, saved, seg_outcome>>
    /\ UNCHANGED <<interpVars, detVars, pipeVars, calcVars, kpiVars>>

ExtractBegin ==
    /\ seg_pc = "ready"
    /\ Len(start_times) > 0
    /\ seg_pc' = "loop"
    /\ UNCHANGED <<SegInputs, seg_j, computed, saved, seg_outcome>>
    /\ UNCHANGED <<interpVars, detVars, pipeVars, calcVars, kpiVars>>

StartSec == window_start(start_times[seg_j + 1], pre_time, t_min)

StopSec == window_stop(start_times, end_times, seg_j, seg_post_time, t_max)

\* Faulty variant: a skipped event ends the loop
after_skip_break(j, n) == "done"

\* continue: the loop goes on with the next event, if there is one
after_skip(j, n) == IF j + 1 = n THEN "done" ELSE "loop"

\* Faulty variant: the chunks are numbered as they are saved
chunk_index_saved(j, n_saved) == n_saved + 1

\* The index in the chunk's name is j+1, the event's 1-based position in
\* start_times.
chunk_index(j, n_saved) == j + 1

\* f"{...:02d}": the decimal digits, at least two of them
RECURSIVE digits(_)
digits(n) == IF n < 10 THEN <<n>> ELSE Append(digits(n \div 10), n % 10)

zero_pad_02d(n) == IF n < 10 THEN <<0, n>> ELSE digits(n)

\* One pass of the loop body; the loop ends after the last start.
SegAdvance ==
    /\ seg_j' = seg_j + 1
    /\ computed' = Append(computed, <<StartSec, StopSec>>)
    /\ UNCHANGED SegInputs
    /\ UNCHANGED <<interpVars, detVars, pipeVars, calcVars, kpiVars>>

SkipInvalidWindow ==
    /\ seg_pc = "loop"
    /\ window_invalid(StartSec, StopSec)
    /\ UNCHANGED saved
    /\ seg_outcome' = Append(seg_outcome, "invalid")
    /\ seg_pc' = after_skip(seg_j, Len(start_times))
    /\ SegAdvance

\* mdf.cut gives a chunk with channels, which is saved as <name>_<event>_<j+1>.
SaveChunk ==
    /\ seg_pc = "loop"
    /\ ~window_invalid(StartSec, StopSec)
    /\ saved' = Append(saved,
                       [j |-> chunk_index(seg_j, Len(saved)),
                        nn |-> zero_pad_02d(chunk_index(seg_j, Len(saved))),
                        start |-> StartSec, stop |-> StopSec])
    /\ seg_outcome' = Append(seg_outcome, "saved")
    /\ seg_pc' = IF seg_j + 1 = Len(start_times) THEN "done" ELSE "loop"
    /\ SegAdvance

\* mdf.cut gives an empty chunk (continue), or cut/save raises and the
\* except clause inside the loop takes it: nothing is saved.
DropChunk ==
    /\ seg_pc = "loop"
    /\ ~window_invalid(StartSec, StopSec)
    /\ UNCHANGED saved
    /\ seg_outcome' = Append(seg_outcome, "dropped")
    /\ seg_pc' = after_skip(seg_j, Len(start_times))
    /\ SegAdvance

\* ------------------------------------------------------------------------
\* Threshold interpolator
\* ------------------------------------------------------------------------

MaxPoints == 3
MaxX == 3
MaxY == 2

NoValue == <<0, 0>>

\* np.min / np.max of a non-empty row
np_min(row) == CHOOSE m \in {row[i] : i \in 1..Len(row)} :
                   \A i \in 1..Len(row) : m <= row[i]

np_max(row) == CHOOSE m \in {row[i] : i \in 1..Len(row)} :
                   \A i \in 1..Len(row) : m >= row[i]

\* np.clip(x, lo, hi) = minimum(maximum(x, lo), hi)
np_clip(x, lo, hi) == Min2(Max2(x, lo), hi)

\* The index np.interp's search returns for a key inside [xp[1], xp[n]]:
\* the last j with xp[j] <= key.
interp_search(xp, key) ==
    CHOOSE j \in 1..Len(xp) :
        /\ xp[j] <= key
        /\ \A k \in (j+1)..Len(xp) : xp[k] > key

\* np.interp(x, xp, fp) for a scalar x, as the exact rational <<num, den>>:
\* fp[1] left of xp[1], fp[n] right of xp[n], fp[j] at a breakpoint, and
\* slope * (x - xp[j]) + fp[j] between two breakpoints.
\* Faulty variant: the slope is added to the right neighbour's value
np_interp_from_right(x, xp, fp) ==
    IF x < xp[1] THEN <<fp[1], 1>>
    ELSE IF x > xp[Len(xp)] THEN <<fp[Len(xp)], 1>>
    ELSE LET j == interp_search(xp, x) IN
         IF j = Len(xp) THEN <<fp[j], 1>>
         ELSE IF xp[j] = x THEN <<fp[j], 1>>
         ELSE <<fp[j + 1] * (xp[j + 1] - xp[j])
                    + (fp[j + 1] - fp[j]) * (x - xp[j]),
                xp[j + 1] - xp[j]>>

np_interp(x, xp, fp) ==
    IF x < xp[1] THEN <<fp[1], 1>>
    ELSE IF x > xp[Len(xp)] THEN <<fp[Len(xp)], 1>>
    ELSE LET j == interp_search(xp, x) IN
         IF j = Len(xp) THEN <<fp[j], 1>>
         ELSE IF xp[j] = x THEN <<fp[j], 1>>
         ELSE <<fp[j] * (xp[j + 1] - xp[j])
                    + (fp[j + 1] - fp[j]) * (x - xp[j]),
                xp[j + 1] - xp[j]>>

\* table.shape[0] != 2, a ragged table, or np.min of an empty row: the call
\* raises and returns nothing.
interp_raises(t) ==
    IF Len(t) # 2 THEN TRUE
    ELSE IF Len(t[1]) # Len(t[2]) THEN TRUE
    ELSE Len(t[1]) = 0

\* Faulty variant: the bounds handed to np.clip are swapped
clamp_query_swapped(t, xq) == np_clip(xq, np_max(t[1]), np_min(t[1]))

clamp_query(t, xq) == np_clip(xq, np_min(t[1]), np_max(t[1]))

interpolate_threshold_clamped(t, xq) ==
    np_interp(clamp_query(t, xq), t[1], t[2])

IsAscending(row) == \A i \in 1..(Len(row) - 1) : row[i] <= row[i + 1]

\* Well-formed 2 x N tables with ascending breakpoints.
AscendingTables ==
    UNION {{<<xs, ys>> : xs \in {r \in [1..n -> 0..MaxX] : IsAscending(r)},
                         ys \in [1..n -> 0..MaxY]} : n \in 1..MaxPoints}

\* The calibration table of the worked example: x = [0,50,100], y = [5,10,20].
ExampleTable == <<<<0, 50, 100>>, <<5, 10, 20>>>>

\* Tables the shape checks reject: one row, three rows, 2 x 0, ragged rows.
MalformedTables ==
    {<<<<0, 1>>>>,
     <<<<0, 1>>, <<0, 1>>, <<0, 1>>>>,
     <<<<>>, <<>>>>,
     <<<<0, 1, 2>>, <<0, 1>>>>}

Queries == (-1..(MaxX + 1)) \cup {50, 75, 200}

InterpInit ==
    /\ table \in AscendingTables \cup {ExampleTable} \cup MalformedTables
    /\ x_query \in Queries
    /\ interp_pc = "ready"
    /\ interp_y = NoValue

InterpIdle ==
    /\ table = ExampleTable
    /\ x_query = 0
    /\ interp_pc = "returned"
    /\ interp_y = <<5, 1>>

InterpolateReturn ==
    /\ interp_pc = "ready"
    /\ ~interp_raises(table)
    /\ interp_y' = interpolate_threshold_clamped(table, x_query)
    /\ interp_pc' = "returned"
    /\ UNCHANGED <<table, x_query>>
    /\ UNCHANGED <<detVars, segVars, pipeVars, calcVars, kpiVars>>

InterpolateRaise ==
    /\ interp_pc = "ready"
    /\ interp_raises(table)
    /\ interp_pc' = "raised"
    /\ UNCHANGED <<table, x_query, interp_y>>
    /\ UNCHANGED <<detVars, segVars, pipeVars, calcVars, kpiVars>>

InterpNext == InterpolateReturn \/ InterpolateRaise

\* ------------------------------------------------------------------------
\* AEB pipeline: event detection stage, then KPI extraction stage
\* ------------------------------------------------------------------------

MaxFiles == 3
MaxWindows == 2

PipeInit ==
    /\ num_files \in 0..MaxFiles
    /\ calib_ok \in BOOLEAN
    /\ file_status = [r \in 1..num_files |-> "pending"]
    /\ file_idx = 0
    /\ cur_events = 0
    /\ chunks = <<>>
    /\ chunk_idx = 0
    /\ row_state = <<>>
    /\ kpi_table = <<>>
    /\ pipe_pc = "detect"

PipeIdle ==
    /\ num_files = 0
    /\ calib_ok = TRUE
    /\ file_status = <<>>
    /\ file_idx = 0
    /\ cur_events = 0
    /\ chunks = <<>>
    /\ chunk_idx = 0
    /\ row_state = <<>>
    /\ kpi_table = <<>>
    /\ pipe_pc = "done"

\* The KPI table's columns, one of each declared type: label (string),
\* vehSpd (double), isVehStopped (logical).  A cell is "str" (a string),
\* "num" (a finite number), "NaN", "bool" (True or False), or "NA" (the
\* missing value pandas puts in a cell nobody assigned: <NA> in a string or
\* boolean column).
KpiColumns == {"label", "vehSpd", "isVehStopped"}

column_type(col) ==
    CASE col = "label" -> "string"
      [] col = "vehSpd" -> "double"
      [] col = "isVehStopped" -> "logical"

\* _create_kpi_table's initial value of a column when n > 0
initial_value(col) ==
    CASE column_type(col) = "string" -> "str"
      [] column_type(col) = "double" -> "NaN"
      [] column_type(col) = "logical" -> "bool"

\* _create_kpi_table(schema, n): n rows of initial values; with n = 0 the
\* columns are empty typed Series and the table has no row.
create_kpi_table(n) == [i \in 1..n |-> [col \in KpiColumns |-> initial_value(col)]]

\* The cell of a row that .loc creates by enlargement, in a column the
\* assignment does not name: NaN in a float64 column, <NA> otherwise.
enlarged_cell(col) == IF column_type(col) = "double" THEN "NaN" ELSE "NA"

\* _insert_label(index, fname): self.kpi_table.loc[index, "label"] = fname.
\* A row that is not there yet is appended by the assignment.
insert_label(tbl, index) ==
    IF index <= Len(tbl)
    THEN [tbl EXCEPT ![index].label = "str"]
    ELSE Append(tbl, [col \in KpiColumns |->
                         IF col = "label" THEN "str" ELSE enlarged_cell(col)])

\* The loop body's own assignments: isVehStopped = bool(is_veh_stopped),
\* vehSpd = veh_spd (NaN without an intervention start).
write_timing(tbl, index, spd) ==
    [tbl EXCEPT ![index].isVehStopped = "bool", ![index].vehSpd = spd]

\* The table the extractor substitutes for a calibratable missing from the
\* config: pd.DataFrame(), which np.asarray turns into an array without rows.
PlaceholderTable == <<>>

\* Faulty variant: the KPI stage starts as soon as one recording has been handled
all_files_processed_early == file_idx >= 1 \/ num_files = 0

\* process_all_files' loop over mdf_files has run out
all_files_processed == file_idx = num_files

\* process_all_files, one recording: SignalMDF(file_path), the required
\* signal is there, detect_events(df) finds n events.
ReadAndDetect ==
    /\ pipe_pc = "detect"
    /\ file_idx < num_files
    /\ \E n \in 0..MaxWindows : cur_events' = n
    /\ file_status' = [file_status EXCEPT ![file_idx + 1] = "detected"]
    /\ pipe_pc' = "extract"
    /\ UNCHANGED <<num_files, calib_ok, file_idx, chunks, chunk_idx, row_state,
                   kpi_table>>
    /\ UNCHANGED <<interpVars, detVars, segVars, calcVars, kpiVars>>

\* The recording cannot be read, lacks the signal, or detection raises: the
\* except clause (or continue) goes on to the next recording.
SkipFile ==
    /\ pipe_pc = "detect"
    /\ file_idx < num_files
    /\ file_status' = [file_status EXCEPT ![file_idx + 1] = "skipped"]
    /\ file_idx' = file_idx + 1
    /\ UNCHANGED <<num_files, calib_ok, cur_events, chunks, chunk_idx,
                   row_state, kpi_table, pipe_pc>>
    /\ UNCHANGED <<interpVars, detVars, segVars, calcVars, kpiVars>>

\* extract_events(mdf, start_times, end_times, name): k of the detected
\* events give a chunk file; then del mdf and on to the next recording.
ExtractWindows ==
    /\ pipe_pc = "extract"
    /\ \E k \in 0..cur_events :
           chunks' = chunks \o [i \in 1..k |-> file_idx + 1]
    /\ file_status' = [file_status EXCEPT ![file_idx + 1] = "windowed"]
    /\ file_idx' = file_idx + 1
    /\ cur_events' = 0
    /\ pipe_pc' = "detect"
    /\ UNCHANGED <<num_files, calib_ok, chunk_idx, row_state, kpi_table>>
    /\ UNCHANGED <<interpVars, detVars, segVars, calcVars, kpiVars>>

\* _extract_kpis: AebKpiExtractor(cfg, event) lists the chunk files and
\* creates the KPI table with create_kpi_table_from_df(config.kpi_spec,
\* feature=...): n keeps its default 0, the table has its columns and no row.
StartKpiStage ==
    /\ pipe_pc = "detect"
    /\ all_files_processed
    /\ Len(chunks) > 0
    /\ row_state' = <<>>
    /\ kpi_table' = create_kpi_table(0)
    /\ pipe_pc' = "kpi"
    /\ UNCHANGED <<num_files, calib_ok, file_status, file_idx, cur_events,
                   chunks, chunk_idx>>
    /\ UNCHANGED <<interpVars, detVars, segVars, calcVars, kpiVars>>

\* BaseKpiExtractor.__init__ raises FileNotFoundError without chunk files;
\* _extract_kpis re-raises it as RuntimeError.
KpiStageNoChunks ==
    /\ pipe_pc = "detect"
    /\ all_files_processed
    /\ Len(chunks) = 0
    /\ pipe_pc' = "failed"
    /\ UNCHANGED <<num_files, calib_ok, file_status, file_idx, cur_events,
                   chunks, chunk_idx, row_state, kpi_table>>
    /\ UNCHANGED <<interpVars, detVars, segVars, calcVars, kpiVars>>

KpiUnchanged ==
    /\ UNCHANGED <<num_files, calib_ok, file_status, file_idx, cur_events,
                   chunks>>
    /\ UNCHANGED <<interpVars, detVars, segVars, calcVars, kpiVars>>

\* _insert_label; _load_mdf returns None; continue.
KpiChunkUnreadable ==
    /\ pipe_pc = "kpi"
    /\ chunk_idx < Len(chunks)
    /\ row_state' = Append(row_state, "labelled")
    /\ kpi_table' = insert_label(kpi_table, chunk_idx + 1)
    /\ chunk_idx' = chunk_idx + 1
    /\ UNCHANGED pipe_pc
    /\ KpiUnchanged

\* The whole loop body for a chunk with an intervention start and well-formed
\* calibratables: every calculator writes its columns.
KpiChunkComplete ==
    /\ pipe_pc = "kpi"
    /\ chunk_idx < Len(chunks)
    /\ calib_ok
    /\ row_state' = Append(row_state, "complete")
    /\ kpi_table' = write_timing(insert_label(kpi_table, chunk_idx + 1),
                               chunk_idx + 1, "num")
    /\ chunk_idx' = chunk_idx + 1
    /\ UNCHANGED pipe_pc
    /\ KpiUnchanged

\* interpolate_threshold_clamped raises on a calibratable that is not 2 x N.
\* The loop body has no try: the exception leaves process_all_mdf_files and
\* _extract_kpis re-raises it as RuntimeError out of run().
KpiChunkInterpolationRaises ==
    /\ pipe_pc = "kpi"
    /\ chunk_idx < Len(chunks)
    /\ ~calib_ok
    /\ interp_raises(PlaceholderTable)
    /\ row_state' = Append(row_state, "partial")
    /\ \E spd \in {"num", "NaN"} :
           kpi_table' = write_timing(insert_label(kpi_table, chunk_idx + 1),
                                     chunk_idx + 1, spd)
    /\ chunk_idx' = chunk_idx + 1
    /\ pipe_pc' = "failed"
    /\ KpiUnchanged

\* The chunk has no intervention start (aeb_start_idx is None):
\* AebLatencyCalculator.compute_all adds an int to None and raises; the
\* exception leaves the loop as above.
KpiChunkCalculatorRaises ==
    /\ pipe_pc = "kpi"
    /\ chunk_idx < Len(chunks)
    /\ calib_ok
    /\ row_state' = Append(row_state, "partial")
    /\ kpi_table' = write_timing(insert_label(kpi_table, chunk_idx + 1),
                               chunk_idx + 1, "NaN")
    /\ chunk_idx' = chunk_idx + 1
    /\ pipe_pc' = "failed"
    /\ KpiUnchanged

\* The loop ran out; export_to_excel; the pipeline goes on.
KpiStageDone ==
    /\ pipe_pc = "kpi"
    /\ chunk_idx = Len(chunks)
    /\ pipe_pc' = "done"
    /\ UNCHANGED <<chunk_idx, row_state, kpi_table>>
    /\ KpiUnchanged

PipeNext ==
    \/ ReadAndDetect
    \/ SkipFile
    \/ ExtractWindows
    \/ StartKpiStage
    \/ KpiStageNoChunks
    \/ KpiChunkUnreadable
    \/ KpiChunkComplete
    \/ KpiChunkInterpolationRaises
    \/ KpiChunkCalculatorRaises
    \/ KpiStageDone

\* ------------------------------------------------------------------------
\* KPI calculators of one chunk: intervention start, then the calculators
\* in the order of process_all_mdf_files
\* ------------------------------------------------------------------------

MaxSamples == 4

\* Decelerations are in 0.1 m/s^2: pb_tgt_decel -6.0, fb_tgt_decel -15.0,
\* tgt_tol 0.2, and the tolerance 0.1 find_aeb_intv_start passes on.
PbTgtDecel == 0 - 60
FbTgtDecel == 0 - 150
TgtTol == 2
StartTol == 1

DecelLevels == {0, PbTgtDecel + StartTol, FbTgtDecel}

\* The target deceleration of the worked example, sampled at 10 Hz.
ExampleDecel == <<0, 0, 0 - 10, 0 - 70, 0 - 70, 0 - 70, 0, 0>>
ExampleDecelTime == <<0, 1, 2, 3, 4, 5, 6, 7>>

NoneIdx == <<>>
NaN == <<>>

Abs(v) == IF v < 0 THEN 0 - v ELSE v

SetMin(S) == CHOOSE x \in S : \A y \in S : x <= y

SetMax(S) == CHOOSE x \in S : \A y \in S : x >= y

\* Faulty variant: the comparison admits the threshold itself
less_or_equal_indices(vector, target_value, tolerance) ==
    {i - 1 : i \in {k \in 1..Len(vector) : vector[k] <= target_value + tolerance}}

\* find_first_last_indices(vector, target_value, "less", tolerance): the
\* 0-based indices with vector < target_value + tolerance
less_indices(vector, target_value, tolerance) ==
    {i - 1 : i \in {k \in 1..Len(vector) : vector[k] < target_value + tolerance}}

\* find_aeb_intv_start: first_idx of the "less" comparison with tolerance
\* 0.1, or None
find_aeb_intv_start(decel, pb_tgt_decel) ==
    LET all_idx == less_indices(decel, pb_tgt_decel, StartTol)
    IN  IF all_idx = {} THEN NoneIdx ELSE <<SetMin(all_idx)>>

\* aeb_start_idx is None or aeb_start_idx >= len(signal)
invalid_start(idx, n) == IF idx = NoneIdx THEN TRUE ELSE idx[1] >= n

\* The row .loc creates for the chunk: NaN in the double columns, <NA> in
\* the logical ones.
new_calc_row ==
    [aebIntvDist |-> "NaN",
     pedalPosAtStart |-> "NaN", isPedalPosIncHigh |-> "NA",
     absSteerMaxDeg |-> "NaN", isSteerHigh |-> "NA",
     absLatAccelMax |-> "NaN", isLatAccelHigh |-> "NA",
     absYawRateMaxDeg |-> "NaN", isYawRateHigh |-> "NA",
     pbDur |-> NaN, fbDur |-> NaN, isPBOn |-> "NA", isFBOn |-> "NA",
     aebSysRespTime |-> "NaN"]

\* np.where(np.abs(segment - tgt) <= tol)[0], as 1-based sample numbers of
\* the whole signal; the segment starts at the 0-based index s.
band_idx(decel, s, tgt) ==
    {i \in (s + 1)..Len(decel) : Abs(decel[i] - tgt) <= TgtTol}

PyBool(b) == IF b THEN "True" ELSE "False"

\* compute_brake_mode: an invalid start index returns before any write; PB
\* counts only before the first FB sample.
compute_brake_mode(decel, t, idx, row) ==
    IF invalid_start(idx, Len(t)) THEN row
    ELSE LET pb_all == band_idx(decel, idx[1], PbTgtDecel)
             fb_idx == band_idx(decel, idx[1], FbTgtDecel)
             is_fb_on == fb_idx # {}
             pb_idx == IF is_fb_on
                       THEN {i \in pb_all : i < SetMin(fb_idx)}
                       ELSE pb_all
             is_pb_on == pb_idx # {}
             pb_dur_val == IF is_pb_on
                           THEN t[SetMax(pb_idx)] - t[SetMin(pb_idx)]
                           ELSE 0
             fb_dur_val == IF is_fb_on
                           THEN t[SetMax(fb_idx)] - t[SetMin(fb_idx)]
                           ELSE 0
         IN  [row EXCEPT !.pbDur = <<pb_dur_val>>, !.fbDur = <<fb_dur_val>>,
                         !.isPBOn = PyBool(is_pb_on),
                         !.isFBOn = PyBool(is_fb_on)]

CalcInit ==
    /\ \/ \E n \in 1..MaxSamples :
              /\ aebTargetDecel \in [1..n -> DecelLevels]
              /\ chunk_time \in TimeVectors(n)
       \/ /\ aebTargetDecel = ExampleDecel
          /\ chunk_time = ExampleDecelTime
    /\ aeb_start_idx = NoneIdx
    /\ start_by = "none"
    /\ calc_row = new_calc_row
    /\ calc_pc = "locate"

CalcIdle ==
    /\ aebTargetDecel = <<0>>
    /\ chunk_time = <<0>>
    /\ aeb_start_idx = NoneIdx
    /\ start_by = "none"
    /\ calc_row = new_calc_row
    /\ calc_pc = "done"

CalcOthers == UNCHANGED <<interpVars, detVars, segVars, pipeVars, kpiVars>>

\* aeb_start_idx, aeb_start_time = find_aeb_intv_start(..., self.pb_tgt_decel)
FindAebIntvStart ==
    /\ calc_pc = "locate"
    /\ aeb_start_idx' = find_aeb_intv_start(aebTargetDecel, PbTgtDecel)
    /\ start_by' = "find_aeb_intv_start"
    /\ calc_pc' = "distance"
    /\ UNCHANGED <<aebTargetDecel, chunk_time, calc_row>>
    /\ CalcOthers

\* A caller hands the calculators a start index of its own: None, or any
\* index up to one past the last sample.
CallWithStartIdx ==
    /\ calc_pc = "locate"
    /\ \/ aeb_start_idx' = NoneIdx
       \/ \E i \in 0..Len(aebTargetDecel) : aeb_start_idx' = <<i>>
    /\ start_by' = "caller"
    /\ calc_pc' = "distance"
    /\ UNCHANGED <<aebTargetDecel, chunk_time, calc_row>>
    /\ CalcOthers

CalcKeep ==
    /\ UNCHANGED <<aebTargetDecel, chunk_time, aeb_start_idx, start_by>>
    /\ CalcOthers

StartInvalid == invalid_start(aeb_start_idx, Len(chunk_time))

\* compute_distance: find_aeb_intv_end gives no end index for an invalid
\* start, and the four distances are filled with NaN.
ComputeDistance ==
    /\ calc_pc = "distance"
    /\ calc_row' =
             [calc_row EXCEPT !.aebIntvDist =
                 IF StartInvalid THEN "NaN" ELSE "num"]
    /\ calc_pc' = "throttle"
    /\ CalcKeep

\* compute_throttle: _fill_defaults on an invalid start index
ComputeThrottle ==
    /\ calc_pc = "throttle"
    /\ calc_row' =
             IF StartInvalid
             THEN [calc_row EXCEPT !.pedalPosAtStart = "NaN",
                                   !.isPedalPosIncHigh = "False"]
             ELSE [calc_row EXCEPT !.pedalPosAtStart = "num",
                                   !.isPedalPosIncHigh = "bool"]
    /\ calc_pc' = "steering"
    /\ CalcKeep

\* compute_steering: an invalid start index returns before any write
ComputeSteering ==
    /\ calc_pc = "steering"
    /\ calc_row' =
             IF StartInvalid THEN calc_row
             ELSE [calc_row EXCEPT !.absSteerMaxDeg = "num",
                                   !.isSteerHigh = "bool"]
    /\ calc_pc' = "lat_accel"
    /\ CalcKeep

\* compute_lat_accel: _fill_defaults on an invalid start index
ComputeLatAccel ==
    /\ calc_pc = "lat_accel"
    /\ calc_row' =
             IF StartInvalid
             THEN [calc_row EXCEPT !.absLatAccelMax = "NaN",
                                   !.isLatAccelHigh = "False"]
             ELSE [calc_row EXCEPT !.absLatAccelMax = "num",
                                   !.isLatAccelHigh = "bool"]
    /\ calc_pc' = "yaw_rate"
    /\ CalcKeep

\* compute_yaw_rate: _fill_defaults on an invalid start index
ComputeYawRate ==
    /\ calc_pc = "yaw_rate"
    /\ calc_row' =
             IF StartInvalid
             THEN [calc_row EXCEPT !.absYawRateMaxDeg = "NaN",
                                   !.isYawRateHigh = "False"]
             ELSE [calc_row EXCEPT !.absYawRateMaxDeg = "num",
                                   !.isYawRateHigh = "bool"]
    /\ calc_pc' = "brake_mode"
    /\ CalcKeep

ComputeBrakeMode ==
    /\ calc_pc = "brake_mode"
    /\ calc_row' =
             compute_brake_mode(aebTargetDecel, chunk_time, aeb_start_idx,
                                calc_row)
    /\ calc_pc' = "latency"
    /\ CalcKeep

\* compute_all: _compute_vehicle_latency returns zeros when
\* start_idx >= min(start_idx + latency_window_samples, len(time) - 1),
\* without reading a sample; otherwise a response time or 0.0.
ComputeLatency ==
    /\ calc_pc = "latency"
    /\ aeb_start_idx # NoneIdx
    /\ calc_row' =
             [calc_row EXCEPT !.aebSysRespTime = "num"]
    /\ calc_pc' = "done"
    /\ CalcKeep

\* _compute_vehicle_latency with aeb_start_idx = None: start_idx +
\* self.latency_window_samples raises TypeError before any write.
LatencyRaises ==
    /\ calc_pc = "latency"
    /\ aeb_start_idx = NoneIdx
    /\ calc_row' =
             calc_row
    /\ calc_pc' = "raised"
    /\ CalcKeep

CalcNext ==
    \/ FindAebIntvStart
    \/ CallWithStartIdx
    \/ ComputeDistance
    \/ ComputeThrottle
    \/ ComputeSteering
    \/ ComputeLatAccel
    \/ ComputeYawRate
    \/ ComputeBrakeMode
    \/ ComputeLatency
    \/ LatencyRaises

\* ------------------------------------------------------------------------
\* Jerk: numpy.gradient and the deceleration onset (utils/event_detector/
\* decel.py).  A gradient value is an exact rational <<num, den>>, den > 0.
\* ------------------------------------------------------------------------

\* np.gradient(f, x)[i] for 1-based i, Len(f) = Len(x) >= 2, x strictly
\* increasing: one-sided differences at both edges, the second-order
\* formula for unevenly spaced samples inside.
gradient_at(f, x, i) ==
    IF i = 1 THEN <<f[2] - f[1], x[2] - x[1]>>
    ELSE IF i = Len(f) THEN <<f[i] - f[i - 1], x[i] - x[i - 1]>>
    ELSE LET hs == x[i] - x[i - 1]
             hd == x[i + 1] - x[i]
         IN  <<hs * hs * f[i + 1] + (hd * hd - hs * hs) * f[i]
                   - hd * hd * f[i - 1],
               hs * hd * (hd + hs)>>

np_gradient(f, x) == [i \in 1..Len(f) |-> gradient_at(f, x, i)]

\* jerk[i] < thd and jerk[i] > thd on the exact rationals
below(g, thd) == g[1] < thd * g[2]

above(g, thd) == g[1] > thd * g[2]

\* A faulty onset: the last sample below the threshold instead of the first.
detect_decel_onset_last(jerk, neg_thd) ==
    LET neg_idx == {i \in 1..Len(jerk) : below(jerk[i], neg_thd)}
    IN  IF neg_idx = {} THEN NoneIdx ELSE <<SetMax(neg_idx) - 1>>

\* detect_decel_onset: the 0-based index of the first sample whose jerk is
\* below neg_thd, None (<<>>) when there is none.
detect_decel_onset(jerk, neg_thd) ==
    LET neg_idx == {i \in 1..Len(jerk) : below(jerk[i], neg_thd)}
    IN  IF neg_idx = {} THEN NoneIdx ELSE <<SetMin(neg_idx) - 1>>

\* ------------------------------------------------------------------------
\* AEB latency calculator (utils/kpis/aeb/latency.py)
\* ------------------------------------------------------------------------

MaxLatSamples == 5
LatencyWindowSamples == 2
PbDuration == 2
DefaultDtRequiredSamples == 32

\* aeb_jerk_neg_thd, in acceleration units per tick
JerkNegThd == 0 - 20

AccelLevels == {0, 0 - 100}

TgtDecelLevels == {0, PbTgtDecel, FbTgtDecel}

\* uniformly sampled time vectors starting at 0
UniformTimes(n) == {[i \in 1..n |-> (i - 1) * p] : p \in SamplePeriods}

\* the slice a[lo : hi + 1] for 0-based lo, hi
slice(a, lo, hi) == SubSeq(a, lo + 1, hi + 1)

\* _compute_vehicle_latency for a 0-based start index inside the chunk;
\* round(., 3) keeps a whole number of ticks as it is.
vehicle_latency(tm, accel, start_idx) ==
    LET end_idx == Min2(start_idx + LatencyWindowSamples, Len(tm) - 1)
    IN  IF start_idx >= end_idx
        THEN [resp_time |-> <<0>>, dead_time |-> <<0>>]
        ELSE LET jerk == np_gradient(slice(accel, start_idx, end_idx),
                                     slice(tm, start_idx, end_idx))
                 resp_idx_rel == detect_decel_onset(jerk, JerkNegThd)
             IN  IF resp_idx_rel = NoneIdx
                 THEN [resp_time |-> <<0>>, dead_time |-> <<0>>]
                 ELSE LET t_sys_resp == tm[start_idx + resp_idx_rel[1] + 1]
                      IN  [resp_time |-> <<t_sys_resp>>,
                           dead_time |-> <<t_sys_resp - tm[start_idx + 1]>>]

\* int(pb_duration / dt) with dt = np.mean(np.diff(time)), 0.01 s for a
\* single sample
required_samples(tm) ==
    IF Len(tm) > 1
    THEN (PbDuration * (Len(tm) - 1)) \div (tm[Len(tm)] - tm[1])
    ELSE DefaultDtRequiredSamples

\* np.split(pb_indices, ...): the maximal runs <<first, last>> of consecutive
\* 0-based indices of S
pb_segments(S) ==
    {r \in S \X S :
        /\ r[1] <= r[2]
        /\ \A i \in r[1]..r[2] : i \in S
        /\ (r[1] - 1) \notin S
        /\ (r[2] + 1) \notin S}

\* _compute_communication_latency
communication_latency(tm, tgt_decel, accel) ==
    LET pb_indices == {i \in 0..(Len(tm) - 1) : tgt_decel[i + 1] = PbTgtDecel}
        sustained_pb == {r \in pb_segments(pb_indices) :
                            r[2] - r[1] + 1 >= required_samples(tm)}
    IN  IF pb_indices = {} \/ sustained_pb = {} THEN <<0>>
        ELSE
        LET pb_end_idx ==
                (CHOOSE r \in sustained_pb :
                    \A q \in sustained_pb : r[1] <= q[1])[2]
            fb_candidates == {i \in pb_end_idx..(Len(tm) - 1) :
                                 tgt_decel[i + 1] = FbTgtDecel}
        IN  IF fb_candidates = {} THEN <<0>>
            ELSE
            LET fb_start_idx == SetMin(fb_candidates)
                end_idx == Min2(fb_start_idx + LatencyWindowSamples,
                                Len(tm) - 1)
            IN  IF fb_start_idx >= end_idx THEN <<0>>
                ELSE
                LET jerk == np_gradient(slice(accel, fb_start_idx, end_idx),
                                        slice(tm, fb_start_idx, end_idx))
                    resp_idx_rel == detect_decel_onset(jerk, JerkNegThd)
                IN  IF resp_idx_rel = NoneIdx THEN <<0>>
                    ELSE <<Max2(tm[fb_start_idx + resp_idx_rel[1] + 1]
                                    - tm[fb_start_idx + 1], 0)>>

new_lat_row == [aebSysRespTime |-> NaN, aebDeadTime |-> NaN, commLatency |-> NaN]

LatInit ==
    /\ \E n \in 1..MaxLatSamples :
          /\ lat_time \in UniformTimes(n)
          /\ lat_tgt_decel \in [1..n -> TgtDecelLevels]
          /\ longActAccelFlt \in [1..n -> AccelLevels]
          /\ lat_start_idx \in 0..(n - 1)
    /\ lat_row = new_lat_row
    /\ lat_pc = "ready"

LatIdle ==
    /\ lat_time = <<0>>
    /\ lat_tgt_decel = <<0>>
    /\ longActAccelFlt = <<0>>
    /\ lat_start_idx = 0
    /\ lat_row = new_lat_row
    /\ lat_pc = "done"

\* AebLatencyCalculator.compute_all
ComputeAll ==
    /\ lat_pc = "ready"
    /\ LET veh_latency == vehicle_latency(lat_time, longActAccelFlt,
                                          lat_start_idx)
           comm_latency == communication_latency(lat_time, lat_tgt_decel,
                                                 longActAccelFlt)
       IN  lat_row' = [aebSysRespTime |-> veh_latency.resp_time,
                       aebDeadTime |-> veh_latency.dead_time,
                       commLatency |-> comm_latency]
    /\ lat_pc' = "done"
    /\ UNCHANGED <<lat_time, lat_tgt_decel, longActAccelFlt, lat_start_idx>>
    /\ UNCHANGED <<coreVars, jerkVars, distVars, calVars, derivVars>>

LatNext == ComputeAll

\* ------------------------------------------------------------------------
\* FCW brake jerk calculator (utils/kpis/fcw/brake_jerk.py); one tick is
\* 0.1 s, so the window is [t0 - 2, t0 + 10] and the longest duration 5.
\* ------------------------------------------------------------------------

MaxJerkSamples == 4
WindowBefore == 2
WindowAfter == 10
MaxJerkDur == 5
BrakejerkMinSpeed == 30
BrakejerkMaxSpeed == 130

\* brakejerk_jerk_neg_thd and brakejerk_jerk_pos_thd, per tick
BrakeJerkNegThd == 0 - 20

BrakeJerkPosThd == 20

FcwLevels == {0, 3}

SpeedLevels == {0, 80}

BrakeJerkCols == {"brakeJerkDur", "brakeJerkStart", "brakeJerkEnd",
                  "brakeJerkMax", "brakeAccelMin"}

\* a jerk magnitude is kept as the rational <<num, den>>
ZeroRational == <<0, 1>>

new_bj_row == [c \in BrakeJerkCols |-> NaN]

\* _fill_zero
fill_zero ==
    [c \in BrakeJerkCols |->
        IF c = "brakeJerkMax" THEN <<ZeroRational>> ELSE <<0>>]

\* np.where((fcw[:-1] < 3) & (fcw[1:] >= 3))[0], 0-based
fcw_edges(fcw) == {i - 1 : i \in {k \in 1..(Len(fcw) - 1) :
                                     fcw[k] < 3 /\ fcw[k + 1] >= 3}}

\* t0 = time[edges[0] + 1]
trigger_time(tm, fcw) == tm[SetMin(fcw_edges(fcw)) + 2]

\* mask = (time >= t0 - 0.2) & (time <= t0 + 1.0): the 1-based samples kept
window_mask(tm, t0) ==
    {i \in 1..Len(tm) : tm[i] >= t0 - WindowBefore /\ tm[i] <= t0 + WindowAfter}

\* a[mask] for a mask of consecutive samples
masked(a, mask) == SubSeq(a, SetMin(mask), SetMax(mask))

RECURSIVE seq_sum(_)
seq_sum(s) == IF s = <<>> THEN 0 ELSE s[1] + seq_sum(Tail(s))

\* min_spd <= np.nanmean(sw) <= max_spd
speed_in_range(sw) ==
    /\ BrakejerkMinSpeed * Len(sw) <= seq_sum(sw)
    /\ seq_sum(sw) <= BrakejerkMaxSpeed * Len(sw)

\* detect_brake_jerk_end: the last sample after start_idx whose jerk is
\* above pos_thd, None when there is none (0-based indices)
detect_brake_jerk_end(jerk, pos_thd, start_idx) ==
    IF start_idx = NoneIdx THEN NoneIdx
    ELSE LET pos_after_start ==
                 {i \in 1..Len(jerk) :
                     above(jerk[i], pos_thd) /\ i - 1 > start_idx[1]}
         IN  IF pos_after_start = {} THEN NoneIdx
             ELSE <<SetMax(pos_after_start) - 1>>

\* A faulty sanity check: any positive duration passes.
duration_positive(dur) == dur > 0

\* the negation of "dur <= 0 or dur > 0.5"
duration_valid(dur) == ~(dur <= 0 \/ dur > MaxJerkDur)

rat_abs(g) == <<Abs(g[1]), g[2]>>

rat_leq(g, h) == g[1] * h[2] <= h[1] * g[2]

\* np.max(np.abs(jerk[i0:i1+1])) for 0-based i0 <= i1
jerk_max(jerk, i0, i1) ==
    LET mags == {rat_abs(jerk[i + 1]) : i \in i0..i1}
    IN  CHOOSE g \in mags : \A h \in mags : rat_leq(h, g)

\* np.min(aw[i0:i1+1])
accel_min(aw, i0, i1) == SetMin({aw[i + 1] : i \in i0..i1})

\* np.gradient needs at least two samples
gradient_raises(tw) == Len(tw) < 2

\* the row compute_brake_jerk leaves when it returns
brake_jerk_row(tm, accel, fcw, spd) ==
    IF fcw_edges(fcw) = {} THEN fill_zero
    ELSE
    LET mask == window_mask(tm, trigger_time(tm, fcw))
    IN  IF mask = {} THEN fill_zero
        ELSE
        LET tw == masked(tm, mask)
            aw == masked(accel, mask)
            sw == masked(spd, mask)
        IN  IF ~speed_in_range(sw) THEN fill_zero
            ELSE
            LET jerk == np_gradient(aw, tw)
                i0 == detect_decel_onset(jerk, BrakeJerkNegThd)
                i1 == detect_brake_jerk_end(jerk, BrakeJerkPosThd, i0)
            IN  IF i0 = NoneIdx \/ i1 = NoneIdx THEN fill_zero
                ELSE
                LET dur == tw[i1[1] + 1] - tw[i0[1] + 1]
                IN  IF ~duration_valid(dur) THEN fill_zero
                    ELSE [brakeJerkStart |-> <<tw[i0[1] + 1]>>,
                          brakeJerkEnd |-> <<tw[i1[1] + 1]>>,
                          brakeJerkDur |-> <<dur>>,
                          brakeJerkMax |-> <<jerk_max(jerk, i0[1], i1[1])>>,
                          brakeAccelMin |-> <<accel_min(aw, i0[1], i1[1])>>]

\* the chunk reaches np.gradient with a window of a single sample
brake_jerk_raises(tm, fcw, spd) ==
    /\ fcw_edges(fcw) # {}
    /\ LET mask == window_mask(tm, trigger_time(tm, fcw))
       IN  /\ mask # {}
           /\ speed_in_range(masked(spd, mask))
           /\ gradient_raises(masked(tm, mask))

JerkInit ==
    /\ \E n \in 1..MaxJerkSamples :
          /\ bj_time \in TimeVectors(n)
          /\ bj_accel \in [1..n -> AccelLevels]
          /\ fcwRequest \in [1..n -> FcwLevels]
          /\ egoSpeedKph \in [1..n -> SpeedLevels]
    /\ bj_row = new_bj_row
    /\ bj_pc = "ready"

JerkIdle ==
    /\ bj_time = <<0>>
    /\ bj_accel = <<0>>
    /\ fcwRequest = <<0>>
    /\ egoSpeedKph = <<0>>
    /\ bj_row = new_bj_row
    /\ bj_pc = "done"

\* compute_brake_jerk returns
ComputeBrakeJerk ==
    /\ bj_pc = "ready"
    /\ ~brake_jerk_raises(bj_time, fcwRequest, egoSpeedKph)
    /\ bj_row' = brake_jerk_row(bj_time, bj_accel, fcwRequest, egoSpeedKph)
    /\ bj_pc' = "done"
    /\ UNCHANGED <<bj_time, bj_accel, fcwRequest, egoSpeedKph>>
    /\ UNCHANGED <<coreVars, latVars, distVars, calVars, derivVars>>

\* np.gradient raises ValueError; nothing has been written to the row
BrakeJerkRaises ==
    /\ bj_pc = "ready"
    /\ brake_jerk_raises(bj_time, fcwRequest, egoSpeedKph)
    /\ bj_pc' = "raised"
    /\ UNCHANGED <<bj_time, bj_accel, fcwRequest, egoSpeedKph, bj_row>>
    /\ UNCHANGED <<coreVars, latVars, distVars, calVars, derivVars>>

JerkNext == ComputeBrakeJerk \/ BrakeJerkRaises

\* ------------------------------------------------------------------------
\* AEB distance calculator (utils/kpis/aeb/distance.py)
\* ------------------------------------------------------------------------

MaxGapSamples == 5

GapLevels == {0, 1, 2}

DistCols == {"firstDetDist", "stableDetDist", "aebIntvDist", "aebStopGap"}

new_dist_row == [c \in DistCols |-> NaN]

\* np.flatnonzero(segment != 0), 0-based
flatnonzero(segment) == {i - 1 : i \in {k \in 1..Len(segment) : segment[k] # 0}}

\* np.flatnonzero(trimmed == 0), 0-based
flatzero(trimmed) == {i - 1 : i \in {k \in 1..Len(trimmed) : trimmed[k] = 0}}

\* A faulty stable index: the first detection, whatever follows it.
stable_idx_first(segment) == SetMin(flatnonzero(segment))

\* stable_idx for a segment with a non-zero sample (0-based)
stable_idx(segment) ==
    LET nonzero_idx == flatnonzero(segment)
        trimmed == SubSeq(segment, 1, SetMax(nonzero_idx) + 1)
        zero_idx == flatzero(trimmed)
    IN  IF zero_idx = {} THEN SetMin(nonzero_idx) ELSE SetMax(zero_idx) + 1

\* the four columns compute_distance writes
distance_row(long_gap, start_idx, end_idx) ==
    IF end_idx = NoneIdx \/ (end_idx # NoneIdx /\ end_idx[1] >= Len(long_gap))
    THEN [c \in DistCols |-> NaN]
    ELSE
    LET segment == SubSeq(long_gap, 1, end_idx[1] + 1)
        nonzero_idx == flatnonzero(segment)
    IN  [firstDetDist |->
             IF nonzero_idx # {} THEN <<long_gap[SetMin(nonzero_idx) + 1]>>
             ELSE NaN,
         stableDetDist |->
             IF nonzero_idx # {} THEN <<segment[stable_idx(segment) + 1]>>
             ELSE NaN,
         aebIntvDist |->
             IF start_idx # NoneIdx /\ start_idx[1] < Len(long_gap)
             THEN <<long_gap[start_idx[1] + 1]>>
             ELSE NaN,
         aebStopGap |-> <<long_gap[end_idx[1] + 1]>>]

OptionalIndices(n) == {NoneIdx} \cup {<<i>> : i \in 0..n}

DistInit ==
    /\ \E n \in 1..MaxGapSamples :
          /\ longGap \in [1..n -> GapLevels]
          /\ dist_start_idx \in OptionalIndices(n)
          /\ dist_end_idx \in OptionalIndices(n)
    /\ dist_row = new_dist_row
    /\ dist_pc = "ready"

DistIdle ==
    /\ longGap = <<0>>
    /\ dist_start_idx = NoneIdx
    /\ dist_end_idx = NoneIdx
    /\ dist_row = new_dist_row
    /\ dist_pc = "done"

\* AebDistanceCalculator.compute_distance
ComputeDistanceKpis ==
    /\ dist_pc = "ready"
    /\ dist_row' = distance_row(longGap, dist_start_idx, dist_end_idx)
    /\ dist_pc' = "done"
    /\ UNCHANGED <<longGap, dist_start_idx, dist_end_idx>>
    /\ UNCHANGED <<coreVars, latVars, jerkVars, calVars, derivVars>>

DistNext == ComputeDistanceKpis

\* ------------------------------------------------------------------------
\* Calibration scaling of PedalPosProIncrease_Th (config/config.py and
\* python/pipeline/aeb/kpi_extractor.py).  A value is kept in thousandths:
\* <<1000>> is 1.0, <<>> is NaN (an empty cell of the sheet).
\* ------------------------------------------------------------------------

MaxCalPoints == 3
MaxApplications == 2
Thousandths == 1000

PedalValues == {<<0>>, <<5>>, <<500>>, <<1000>>, <<2000>>, NaN}

\* all(0 <= v <= 1 for v in y_vals); a comparison with NaN is False
in_unit_range(y_vals) ==
    \A k \in 1..Len(y_vals) :
        /\ y_vals[k] # NaN
        /\ 0 <= y_vals[k][1]
        /\ y_vals[k][1] <= Thousandths

\* [v * 100 for v in y_vals]; NaN * 100 is NaN
times_100(y_vals) ==
    [k \in 1..Len(y_vals) |->
        IF y_vals[k] = NaN THEN NaN ELSE <<y_vals[k][1] * 100>>]

\* Config._apply_calibration_scaling on a list of numbers
apply_calibration_scaling(y_vals) ==
    IF in_unit_range(y_vals) THEN times_100(y_vals) ELSE y_vals

CalInit ==
    /\ cal_loaded \in SeqsUpTo(PedalValues, 1, MaxCalPoints)
    /\ cal_y = cal_loaded
    /\ cal_first = cal_loaded
    /\ cal_applied = 0
    /\ cal_extracted = FALSE

CalIdle ==
    /\ cal_loaded = <<>>
    /\ cal_y = <<>>
    /\ cal_first = <<>>
    /\ cal_applied = MaxApplications
    /\ cal_extracted = TRUE

\* Config._apply_calibration_scaling
ApplyCalibrationScaling ==
    /\ cal_applied < MaxApplications
    /\ ~cal_extracted
    /\ cal_y' = apply_calibration_scaling(cal_y)
    /\ cal_first' = IF cal_applied = 0 THEN cal_y' ELSE cal_first
    /\ cal_applied' = cal_applied + 1
    /\ UNCHANGED <<cal_loaded, cal_extracted>>
    /\ UNCHANGED <<coreVars, latVars, jerkVars, distVars, derivVars>>

\* KpiExtractor.__init__ takes the table of the loaded configuration and
\* multiplies its values by 100 whatever their range
KpiExtractorScale ==
    /\ cal_applied >= 1
    /\ ~cal_extracted
    /\ cal_y' = times_100(cal_y)
    /\ cal_extracted' = TRUE
    /\ UNCHANGED <<cal_loaded, cal_first, cal_applied>>
    /\ UNCHANGED <<coreVars, latVars, jerkVars, distVars, derivVars>>

CalNext == ApplyCalibrationScaling \/ KpiExtractorScale

\* ------------------------------------------------------------------------
\* Derivative-threshold AEB policy: AebEventSegmenter.detect_events, whose
\* result process_all_files hands to extract_events
\* ------------------------------------------------------------------------

MaxDecelSamples == 5

\* START_DECEL_DELTA, END_DECEL_DELTA and PB_TGT_DECEL, in m/s^2
StartDecelDelta == 0 - 30

EndDecelDelta == 29

SegPbTgtDecel == 0 - 6

DfDecelLevels == {0, 0 - 6, 0 - 40}

\* delta = np.diff(decel): delta[i] for 1-based i in 1..Len(decel)-1
decel_delta(decel, i) == decel[i + 1] - decel[i]

\* delta < self.start_decel_delta
below_start_delta(decel, i) == decel_delta(decel, i) < StartDecelDelta

\* np.where(np.diff(delta < start_decel_delta))[0]: the places where the
\* boolean mask changes, in either direction (1-based)
locate_start(decel) ==
    np_where({i \in 1..(Len(decel) - 2) :
                 below_start_delta(decel, i) # below_start_delta(decel, i + 1)})

\* start_mask = decel[locate_start + 1] <= self.pb_tgt_decel
start_mask(decel, i) == decel[i + 1] <= SegPbTgtDecel

\* start_times = time[locate_start][start_mask]
deriv_start_times(tm, decel) ==
    TimesAt(tm, SelectSeq(locate_start(decel),
                          LAMBDA i : start_mask(decel, i)))

\* locate_end = np.where(delta > self.end_decel_delta)[0]
locate_end(decel) ==
    np_where({i \in 1..(Len(decel) - 1) :
                 decel_delta(decel, i) > EndDecelDelta})

\* buffer_time = max(1.0, self.post_time + 4)
buffer_time(post) == Max2(1, post + 4)

\* end_times, with the fallback start_times + buffer_time when no end was
\* located
deriv_end_times(tm, decel, post) ==
    LET starts == deriv_start_times(tm, decel)
        ends == TimesAt(tm, locate_end(decel))
    IN  IF Len(ends) = 0 /\ Len(starts) > 0
        THEN [k \in 1..Len(starts) |-> starts[k] + buffer_time(post)]
        ELSE ends

DerivInit ==
    /\ \E n \in 1..MaxDecelSamples :
          /\ df_time \in UniformTimes(n)
          /\ df_decel \in [1..n -> DfDecelLevels]
    /\ deriv_pc = "ready"
    /\ pre_time \in 0..MaxPad
    /\ seg_post_time \in 0..MaxPad
    /\ start_times = <<>>
    /\ end_times = <<>>
    /\ t_min = 0
    /\ t_max = 0
    /\ seg_j = 0
    /\ computed = <<>>
    /\ saved = <<>>
    /\ seg_outcome = <<>>
    /\ seg_pc = "detect"

DerivIdle ==
    /\ df_time = <<0>>
    /\ df_decel = <<0>>
    /\ deriv_pc = "detected"

\* start_times, end_times = self.detect_events(df), handed to extract_events
\* together with the recording's time range
DetectEvents ==
    /\ deriv_pc = "ready"
    /\ seg_pc = "detect"
    /\ start_times' = deriv_start_times(df_time, df_decel)
    /\ end_times' = deriv_end_times(df_time, df_decel, seg_post_time)
    /\ t_min' = df_time[1]
    /\ t_max' = df_time[Len(df_time)]
    /\ seg_pc' = "ready"
    /\ deriv_pc' = "detected"
    /\ UNCHANGED <<pre_time, seg_post_time, seg_j, computed, saved, seg_outcome>>
    /\ UNCHANGED <<df_time, df_decel>>
    /\ UNCHANGED <<interpVars, detVars, pipeVars, calcVars>>
    /\ UNCHANGED <<latVars, jerkVars, distVars, calVars>>

KpiIdle == LatIdle /\ JerkIdle /\ DistIdle /\ CalIdle /\ DerivIdle

CoreIdle == InterpIdle /\ DetIdle /\ SegIdle /\ PipeIdle /\ CalcIdle

InitLatency == LatInit /\ CoreIdle /\ JerkIdle /\ DistIdle /\ CalIdle /\ DerivIdle

InitJerk == JerkInit /\ CoreIdle /\ LatIdle /\ DistIdle /\ CalIdle /\ DerivIdle

InitDistance == DistInit /\ CoreIdle /\ LatIdle /\ JerkIdle /\ CalIdle /\ DerivIdle

InitCalibration == CalInit /\ CoreIdle /\ LatIdle /\ JerkIdle /\ DistIdle /\ DerivIdle

SpecCalibration == InitCalibration /\ [][CalNext]_vars

SpecDistance == InitDistance /\ [][DistNext]_vars

SpecJerk == InitJerk /\ [][JerkNext]_vars

SpecLatency == InitLatency /\ [][LatNext]_vars

InitInterp == InterpInit /\ DetIdle /\ SegIdle /\ PipeIdle /\ CalcIdle /\ KpiIdle

SpecInterp == InitInterp /\ [][InterpNext]_vars

DetNext == DetectAebEvents \/ DetectFcwEvents \/ DetectFcwRaise \/ MergeAgain

InitDetect == DetInit /\ InterpIdle /\ SegIdle /\ PipeIdle /\ CalcIdle /\ KpiIdle

SegNext ==
    \/ ExtractNoEvents
    \/ ExtractBegin
    \/ SkipInvalidWindow
    \/ SaveChunk
    \/ DropChunk

InitSegment == SegInit /\ InterpIdle /\ DetIdle /\ PipeIdle /\ CalcIdle /\ KpiIdle

SpecSegment == InitSegment /\ [][SegNext]_vars

InitPipeline == PipeInit /\ InterpIdle /\ DetIdle /\ SegIdle /\ CalcIdle /\ KpiIdle

SpecPipeline == InitPipeline /\ [][PipeNext]_vars

InitCalc == CalcInit /\ InterpIdle /\ DetIdle /\ SegIdle /\ PipeIdle /\ KpiIdle

SpecCalc == InitCalc /\ [][CalcNext]_vars

SpecDetect == InitDetect /\ [][DetNext]_vars

DerivNext == DetectEvents \/ SegNext

InitDeriv ==
    /\ DerivInit
    /\ InterpIdle /\ DetIdle /\ PipeIdle /\ CalcIdle
    /\ LatIdle /\ JerkIdle /\ DistIdle /\ CalIdle

SpecDeriv == InitDeriv /\ [][DerivNext]_vars

\* ------------------------------------------------------------------------
\* Properties of the threshold interpolator
\* ------------------------------------------------------------------------

IsBreakpointValue(t, xq, y) ==
    \E i \in 1..Len(t[1]) : t[1][i] = xq /\ y = <<t[2][i], 1>>

\* C9: interpolate_threshold_clamped clamps instead of extrapolating: with
\* ascending breakpoints, a query below min(x) returns the y paired with
\* min(x), a query above max(x) returns the y paired with max(x), and a query
\* exactly at a breakpoint returns that breakpoint's y.
C9_ClampAndBreakpoint ==
    interp_pc = "returned" =>
        LET xs == table[1] IN
        /\ x_query < np_min(xs) => IsBreakpointValue(table, np_min(xs), interp_y)
        /\ x_query > np_max(xs) => IsBreakpointValue(table, np_max(xs), interp_y)
        /\ (\E i \in 1..Len(xs) : xs[i] = x_query) =>
               IsBreakpointValue(table, x_query, interp_y)

C9_Witness ==
    /\ interp_pc = "returned"
    /\ Len(table[1]) >= 2
    /\ table[2][1] # table[2][Len(table[2])]
    /\ x_query > np_max(table[1])

\* C10: for a query strictly between two adjacent breakpoints the result is
\* the linear interpolation of the two neighbouring y values; the example
\* table gives 15 at query 75 and 20 at query 200.
C10_LinearBetweenBreakpoints ==
    interp_pc = "returned" =>
        /\ \A i \in 1..(Len(table[1]) - 1) :
               LET x0 == table[1][i]
                   x1 == table[1][i + 1]
                   y0 == table[2][i]
                   y1 == table[2][i + 1]
               IN  (x0 < x_query /\ x_query < x1) =>
                       /\ interp_y[2] > 0
                       /\ (interp_y[1] - y0 * interp_y[2]) * (x1 - x0)
                              = (y1 - y0) * (x_query - x0) * interp_y[2]
        /\ (table = ExampleTable /\ x_query = 75) =>
               interp_y[1] = 15 * interp_y[2]
        /\ (table = ExampleTable /\ x_query = 200) =>
               interp_y[1] = 20 * interp_y[2]

C10_Witness ==
    /\ interp_pc = "returned"
    /\ table = ExampleTable
    /\ x_query = 75
    /\ interp_y = <<750, 50>>

\* ------------------------------------------------------------------------
\* Properties of the event boundary detectors
\* ------------------------------------------------------------------------

DetReturned == det_pc \in {"returned", "remerged"} /\ detector \in {"aeb", "fcw"}

\* C2: every (start_time, end_time) pair returned by detect_aeb_events and by
\* detect_fcw_events satisfies start_time < end_time (with a positive
\* post_time, also for a request that is active at the first sample or becomes
\* active at the last one).
C2_StartBeforeEnd ==
    (DetReturned /\ post_time > 0) =>
        \A k \in 1..Len(det_out[1]) : det_out[1][k] < det_out[2][k]

\* C4: in the output of detect_fcw_events any two consecutive events are
\* more than merge_window apart (start[k+1] - end[k] > merge_window), and the
\* request [0,0,2,2,0,0,3,3,0] at 1 Hz with merge_window 2 yields exactly the
\* one event (2, 8).
C4_MergedGapExceedsWindow ==
    (DetReturned /\ detector = "fcw") =>
        /\ Len(det_out[1]) = Len(det_out[2])
        /\ \A k \in 1..(Len(det_out[1]) - 1) :
               det_out[1][k + 1] - det_out[2][k] > merge_window
        /\ (request = ExampleFcwRequest /\ time = ExampleFcwTime
                /\ merge_window = 2) => det_out = <<<<2>>, <<8>>>>

C4_Witness ==
    /\ detector = "fcw"
    /\ det_pc = "returned"
    /\ request = ExampleFcwRequest
    /\ time = ExampleFcwTime
    /\ merge_window = 2
    /\ Len(fcw_start_idx(request)) = 2
    /\ det_out = <<<<2>>, <<8>>>>

\* C5: FCW merging is idempotent: the merge step applied to an already merged
\* (starts, ends) list with the same merge_window returns an identical list.
C5_MergeIdempotent ==
    det_pc = "remerged" => remerged = det_out

C5_Witness ==
    /\ det_pc = "remerged"
    /\ Len(det_out[1]) >= 2
    /\ remerged = det_out

\* The detected AEB end samples after sample s, read off the request signal.
LaterEnds(s) ==
    {e \in (s + 1)..Len(request) :
         request[e - 1] \in {1, 2, 3} /\ request[e] = 0}

\* C6: detect_aeb_events pairs each detected start with the first detected
\* end at a later sample; when there is none, that event's end is
\* min(last timestamp of the recording, start_time + post_time).
C6_AebPairing ==
    (DetReturned /\ detector = "aeb") =>
        LET si == aeb_start_indices(request) IN
        /\ Len(det_out[1]) = Len(si)
        /\ Len(det_out[2]) = Len(si)
        /\ \A k \in 1..Len(si) :
               /\ det_out[1][k] = time[si[k]]
               /\ IF LaterEnds(si[k]) # {}
                  THEN \E e \in LaterEnds(si[k]) :
                           /\ \A f \in LaterEnds(si[k]) : e <= f
                           /\ det_out[2][k] = time[e]
                  ELSE det_out[2][k] =
                           Min2(time[Len(time)], time[si[k]] + post_time)

C6_Witness ==
    /\ detector = "aeb"
    /\ det_pc = "returned"
    /\ Len(det_out[1]) = 2
    /\ LaterEnds(aeb_start_indices(request)[1]) # {}
    /\ LaterEnds(aeb_start_indices(request)[2]) = {}
    /\ post_time > 0
    /\ det_out[2][2] = det_out[1][2] + post_time
    /\ det_out[2][2] < time[Len(time)]

\* ------------------------------------------------------------------------
\* Properties of the window extractor
\* ------------------------------------------------------------------------

\* C1: every window extract_events cuts and saves lies inside the recording
\* and has positive width: t_min <= window_start < window_end <= t_max.
C1_WindowInsideRecording ==
    \A k \in 1..Len(saved) :
        /\ t_min <= saved[k].start
        /\ saved[k].start < saved[k].stop
        /\ saved[k].stop <= t_max

C1_Witness ==
    \E k \in 1..Len(saved) :
        /\ start_times[saved[k].j] - pre_time < t_min
        /\ saved[k].j <= Len(end_times)
        /\ end_times[saved[k].j] + seg_post_time > t_max
        /\ saved[k].start = t_min
        /\ saved[k].stop = t_max

\* C8: for every event i, window_start = max(start_times[i] - pre_time, t_min)
\* and window_end = min(end_times[i] + post_time, t_max) when an i-th end
\* exists, else min(start_times[i] + post_time, t_max); start 10 without an
\* end, pre_time 6, post_time 3 on a source [0, 12] gives the window [4, 12].
C8_WindowFormula ==
    /\ \A i \in 1..Len(computed) :
           /\ computed[i][1] =
                  (IF start_times[i] - pre_time >= t_min
                   THEN start_times[i] - pre_time ELSE t_min)
           /\ computed[i][2] =
                  (LET base == IF i <= Len(end_times) THEN end_times[i]
                               ELSE start_times[i]
                   IN  IF base + seg_post_time <= t_max
                       THEN base + seg_post_time ELSE t_max)
    /\ (ExampleSegInit /\ seg_pc = "done") =>
           /\ computed = <<<<4, 12>>>>
           /\ \A k \in 1..Len(saved) : saved[k].start = 4 /\ saved[k].stop = 12

C8_Witness ==
    /\ ExampleSegInit
    /\ seg_pc = "done"
    /\ Len(saved) = 1
    /\ saved[1] = [j |-> 1, nn |-> <<0, 1>>, start |-> 4, stop |-> 12]

\* ------------------------------------------------------------------------
\* Properties of the pipeline
\* ------------------------------------------------------------------------

KpiLoopLeft == pipe_pc \in {"done", "failed"} /\ Len(chunks) > 0

\* C3: when the computation for one chunk fails, the failure is absorbed
\* locally and every remaining chunk is still processed: once the KPI stage
\* is over, process_all_mdf_files has gone through every chunk.
C3_FailureAbsorbed ==
    KpiLoopLeft =>
        /\ chunk_idx = Len(chunks)
        /\ Len(row_state) = Len(chunks)

FileFinished(r) == file_status[r] \in {"windowed", "skipped"}

ChunkComputed(c) == c <= Len(row_state)

\* C7 (as claimed): each recording is event-detected, windowed and
\* KPI-computed to completion before the next recording is read.
C7_PerRecordingToCompletion ==
    \A r \in 1..(num_files - 1) :
        file_status[r + 1] # "pending" =>
            \A c \in 1..Len(chunks) : chunks[c] = r => ChunkComputed(c)

\* C7 (amended): the run is sequential per stage. Each recording is
\* event-detected and windowed to completion before the next one is read,
\* and the KPI computation of any window starts only after every recording
\* has been event-detected and windowed.
C7_StageSequential ==
    /\ \A r \in 1..(num_files - 1) :
           file_status[r + 1] # "pending" => FileFinished(r)
    /\ (pipe_pc = "kpi" \/ \E c \in 1..Len(row_state) : ChunkComputed(c)) =>
           \A r \in 1..num_files : FileFinished(r)

C7_Witness ==
    /\ num_files >= 2
    /\ \E c \in 1..Len(chunks) : chunks[c] = 1 /\ ChunkComputed(c)
    /\ \E c \in 1..Len(chunks) : chunks[c] = 2
    /\ \A r \in 1..num_files : FileFinished(r)


(***************************************************************************)
(* C11: interpolate_threshold_clamped ends with an error, and never with a *)
(* returned value, for every malformed table: not two rows, rows of        *)
(* different length, or fewer than 2 breakpoints.  (The table and the      *)
(* query are never assigned by either action.)                             *)
(***************************************************************************)
IsMalformedTable(t) ==
    IF Len(t) # 2 THEN TRUE
    ELSE IF Len(t[1]) # Len(t[2]) THEN TRUE
    ELSE Len(t[1]) < 2

C11_MalformedTableRaises ==
    (IsMalformedTable(table) /\ interp_pc # "ready")
        => (interp_pc = "raised" /\ interp_y = NoValue)


(***************************************************************************)
(* C12: after a full run of process_all_mdf_files, every cell of every row *)
(* of the KPI table holds a value of its column's declared type: a logical *)
(* column True or False (never a missing value), a double column a number  *)
(* or NaN, a string column a string.                                       *)
(***************************************************************************)
IsOfDeclaredType(col, cell) ==
    CASE column_type(col) = "string" -> cell = "str"
      [] column_type(col) = "double" -> cell \in {"num", "NaN"}
      [] column_type(col) = "logical" -> cell = "bool"

C12_CellsOfDeclaredType ==
    pipe_pc = "done" =>
        \A i \in 1..Len(kpi_table) : \A col \in KpiColumns :
            IsOfDeclaredType(col, kpi_table[i][col])

(***************************************************************************)
(* C13: the KPI table is pre-sized.  Its rows are allocated at creation    *)
(* and the loop of process_all_mdf_files only assigns cells of existing    *)
(* rows, so no step of the KPI stage changes the number of rows.           *)
(***************************************************************************)
C13_RowCountFixedAfterCreation ==
    [][pipe_pc = "kpi" => Len(kpi_table') = Len(kpi_table)]_vars

\* ------------------------------------------------------------------------
\* Properties of the KPI calculators
\* ------------------------------------------------------------------------

BrakeModeComputed == calc_pc \in {"latency", "done", "raised"}

IsNonNegativeNumber(cell) == IF cell = NaN THEN FALSE ELSE cell[1] >= 0

(***************************************************************************)
(* C14: for every row after the brake-mode computation, pbDur >= 0 and     *)
(* fbDur >= 0, and pbDur (fbDur) is exactly 0.0, not NaN, whenever partial *)
(* (full) braking is not detected in the window, for every window and      *)
(* every event-start index, an invalid one included.                       *)
(***************************************************************************)
C14_BrakeDurations ==
    BrakeModeComputed =>
        /\ IsNonNegativeNumber(calc_row.pbDur)
        /\ IsNonNegativeNumber(calc_row.fbDur)
        /\ calc_row.isPBOn # "True" => calc_row.pbDur = <<0>>
        /\ calc_row.isFBOn # "True" => calc_row.fbDur = <<0>>

StartFound == start_by = "find_aeb_intv_start"

StartThreshold == PbTgtDecel + StartTol

\* C17 (as claimed): the intervention start is the first sample index at
\* which the target deceleration is at or below the PB target plus the
\* tolerance (-5.9), None when no sample qualifies, and index 3 for the
\* signal [0,0,-1,-7,-7,-7,0,0].
C17_FirstAtOrBelow ==
    StartFound =>
        LET q == {k \in 1..Len(aebTargetDecel) :
                     aebTargetDecel[k] <= StartThreshold}
        IN  /\ q = {} => aeb_start_idx = NoneIdx
            /\ q # {} => aeb_start_idx = <<SetMin(q) - 1>>
            /\ aebTargetDecel = ExampleDecel => aeb_start_idx = <<3>>

\* C17 (amended): the intervention start is the first sample index at which
\* the target deceleration is strictly below the PB target plus 0.1 (-5.9):
\* a sample equal to -5.9 does not qualify.  It is None when no sample is
\* below, and index 3 for the signal [0,0,-1,-7,-7,-7,0,0].
C17_FirstStrictlyBelow ==
    StartFound =>
        /\ aeb_start_idx = NoneIdx =>
               \A k \in 1..Len(aebTargetDecel) :
                   aebTargetDecel[k] >= StartThreshold
        /\ aeb_start_idx # NoneIdx =>
               /\ aebTargetDecel[aeb_start_idx[1] + 1] < StartThreshold
               /\ \A k \in 1..aeb_start_idx[1] :
                      aebTargetDecel[k] >= StartThreshold
        /\ aebTargetDecel = ExampleDecel => aeb_start_idx = <<3>>

\* A sample equal to the threshold comes before the start that is found.
C17_Witness ==
    /\ StartFound
    /\ aeb_start_idx # NoneIdx
    /\ \E k \in 1..aeb_start_idx[1] : aebTargetDecel[k] = StartThreshold

CalculatorsLeft == calc_pc \in {"done", "raised"}

(***************************************************************************)
(* C19: every AEB calculator called with an event-start index that is None *)
(* or out of bounds returns without raising, and its output columns hold   *)
(* the documented defaults (False for a flag, NaN for a continuous metric, *)
(* 0.0 for a duration).                                                    *)
(***************************************************************************)
C19_InvalidIndexDefaults ==
    (CalculatorsLeft /\ StartInvalid) =>
        /\ calc_pc = "done"
        /\ \A f \in {"isPedalPosIncHigh", "isSteerHigh", "isLatAccelHigh",
                     "isYawRateHigh", "isPBOn", "isFBOn"} :
               calc_row[f] = "False"
        /\ \A c \in {"aebIntvDist", "pedalPosAtStart", "absSteerMaxDeg",
                     "absLatAccelMax", "absYawRateMaxDeg"} :
               calc_row[c] = "NaN"
        /\ calc_row.pbDur = <<0>>
        /\ calc_row.fbDur = <<0>>

\* ------------------------------------------------------------------------
\* Properties of the window extractor's loop
\* ------------------------------------------------------------------------

EventWindowInvalid(j) ==
    window_invalid(window_start(start_times[j], pre_time, t_min),
                   window_stop(start_times, end_times, j - 1, seg_post_time,
                               t_max))

IsSaved(j) == \E k \in 1..Len(saved) : saved[k].j = j

(***************************************************************************)
(* C15: in extract_events an event whose window is degenerate, whose cut   *)
(* is empty or whose cut/save raises is skipped alone: the loop goes       *)
(* through every event, and every event with a valid window whose own cut  *)
(* and save succeed is saved, whatever happened to the others.             *)
(***************************************************************************)
C15_SkippedAlone ==
    seg_pc = "done" =>
        /\ Len(seg_outcome) = Len(start_times)
        /\ \A j \in 1..Len(start_times) :
               /\ seg_outcome[j] = "invalid" <=> EventWindowInvalid(j)
               /\ seg_outcome[j] = "saved" <=> IsSaved(j)

\* An event with a degenerate window is skipped and a later event of the
\* same recording is saved.
C15_Witness ==
    /\ seg_pc = "done"
    /\ \E j \in 1..Len(seg_outcome) : \E k \in (j + 1)..Len(seg_outcome) :
           /\ seg_outcome[j] = "invalid"
           /\ EventWindowInvalid(j)
           /\ seg_outcome[k] = "saved"
           /\ IsSaved(k)

\* C16 (as claimed): the index in the name is sequential over the valid
\* windows: the k-th window saved for a recording carries index k.
C16_SequentialOverSaved ==
    \A k \in 1..Len(saved) : saved[k].j = k /\ saved[k].nn = zero_pad_02d(k)

\* C16 (amended): the index in the name is the zero-padded 1-based position
\* of the event among the detected events of the recording, skipped events
\* included: the indices of the saved windows increase strictly, the k-th
\* saved window carries an index >= k, and its window is the one of the
\* event at that position.
C16_IndexIsEventPosition ==
    \A k \in 1..Len(saved) :
        /\ saved[k].j \in k..Len(start_times)
        /\ saved[k].nn = zero_pad_02d(saved[k].j)
        /\ saved[k].nn[1] = 0 /\ saved[k].nn[2] = saved[k].j
        /\ k > 1 => saved[k - 1].j < saved[k].j
        /\ seg_outcome[saved[k].j] = "saved"
        /\ saved[k].start = window_start(start_times[saved[k].j], pre_time,
                                         t_min)

\* The first event is skipped and the second is saved under index 02.
C16_Witness ==
    /\ seg_pc = "done"
    /\ Len(saved) = 1
    /\ saved[1].nn = <<0, 2>>

(***************************************************************************)
(* C18: with a calibration threshold table missing or malformed the        *)
(* extractor substitutes a placeholder and the KPI processing of every     *)
(* chunk continues: no chunk's processing is aborted, the run goes through *)
(* all chunks and ends normally.                                           *)
(***************************************************************************)
C18_PlaceholderContinues ==
    (~calib_ok /\ pipe_pc \in {"done", "failed"} /\ Len(chunks) > 0) =>
        /\ pipe_pc = "done"
        /\ Len(kpi_table) = Len(chunks)
        /\ \A i \in 1..Len(row_state) : row_state[i] # "partial"

(***************************************************************************)
(* C20: when the FCW request is still active (2 or 3) at the last sample   *)
(* of the recording, the last event detect_fcw_events returns ends at the  *)
(* final timestamp, for every request sequence, those that begin active    *)
(* included.                                                               *)
(***************************************************************************)
C20_ActiveAtEndEndsAtLastSample ==
    (/\ detector = "fcw"
     /\ det_pc \in {"returned", "remerged"}
     /\ request[Len(request)] \in {2, 3}
     /\ Len(det_out[2]) > 0)
        => det_out[2][Len(det_out[2])] = time[Len(time)]

(***************************************************************************)
(* C21: the brake-mode calculator reports isPBOn = True exactly when at    *)
(* least one sample in [event start, end of window] lies within the        *)
(* tolerance band of the partial-braking target, also when full braking    *)
(* is present in the same window.                                          *)
(***************************************************************************)
C21_PbFlagIffBandSample ==
    (BrakeModeComputed /\ ~StartInvalid) =>
        (calc_row.isPBOn = "True"
            <=> band_idx(aebTargetDecel, aeb_start_idx[1], PbTgtDecel) # {})

\* ------------------------------------------------------------------------
\* Properties of the latency calculator
\* ------------------------------------------------------------------------

LatencyComputed == lat_pc = "done"

PbSamples == {i \in 0..(Len(lat_time) - 1) : lat_tgt_decel[i + 1] = PbTgtDecel}

\* C22: commLatency is non-zero only if the target deceleration holds the
\* partial-braking target over a contiguous run whose last sample is at least
\* pb_duration later than its first and which is followed by a full-braking
\* sample.
C22_CommLatencyNeedsSustainedPb ==
    (LatencyComputed /\ lat_row.commLatency # <<0>>) =>
        \E r \in pb_segments(PbSamples) :
            /\ lat_time[r[2] + 1] - lat_time[r[1] + 1] >= PbDuration
            /\ \E i \in (r[2] + 1)..(Len(lat_time) - 1) :
                   lat_tgt_decel[i + 1] = FbTgtDecel

\* the samples of [start, min(start + latency_window_samples, last index)]
\* whose jerk is below the negative threshold (0-based)
OnsetSamples ==
    LET last == Min2(lat_start_idx + LatencyWindowSamples, Len(lat_time) - 1)
    IN  IF lat_start_idx >= last THEN {}
        ELSE LET jerk == np_gradient(slice(longActAccelFlt, lat_start_idx, last),
                                     slice(lat_time, lat_start_idx, last))
             IN  {i \in lat_start_idx..last :
                     below(jerk[i - lat_start_idx + 1], JerkNegThd)}

\* C23: aebDeadTime is the time of the first sample of the latency window
\* whose jerk is below the negative threshold minus the time at the start
\* index, and is not negative; without such a sample aebSysRespTime and
\* aebDeadTime are both 0, never NaN.
C23_DeadTimeFromFirstOnset ==
    LatencyComputed =>
        IF OnsetSamples = {}
        THEN lat_row.aebSysRespTime = <<0>> /\ lat_row.aebDeadTime = <<0>>
        ELSE /\ lat_row.aebDeadTime =
                    <<lat_time[SetMin(OnsetSamples) + 1]
                          - lat_time[lat_start_idx + 1]>>
             /\ lat_row.aebDeadTime[1] >= 0

C23_Witness ==
    /\ LatencyComputed
    /\ Cardinality(OnsetSamples) >= 2
    /\ lat_row.aebDeadTime # <<0>>

\* ------------------------------------------------------------------------
\* Properties of the brake jerk calculator
\* ------------------------------------------------------------------------

BrakeJerkReturned == bj_pc = "done"

BrakeJerkWindow ==
    masked(egoSpeedKph, window_mask(bj_time, trigger_time(bj_time, fcwRequest)))

DistanceComputed ==
    /\ dist_pc = "done"
    /\ dist_end_idx # NoneIdx
    /\ dist_end_idx[1] < Len(longGap)

\* the 0-based samples of [0, event-end index] with a non-zero gap
NonZeroInRange == {i \in 0..dist_end_idx[1] : longGap[i + 1] # 0}

\* the first index of the last maximal run of consecutive non-zero samples
LastRunStart ==
    (CHOOSE r \in pb_segments(NonZeroInRange) :
        \A q \in pb_segments(NonZeroInRange) : q[2] <= r[2])[1]

\* C25: stableDetDist is the gap at the first index of the last maximal run
\* of consecutive non-zero gap samples within [0, event-end index], NaN when
\* no sample of the range is non-zero; the index used is never before the
\* first-detection index.
C25_StableIsLastRunStart ==
    DistanceComputed =>
        IF NonZeroInRange = {} THEN dist_row.stableDetDist = NaN
        ELSE /\ dist_row.stableDetDist = <<longGap[LastRunStart + 1]>>
             /\ stable_idx(SubSeq(longGap, 1, dist_end_idx[1] + 1)) = LastRunStart
             /\ LastRunStart >= SetMin(NonZeroInRange)

C25_Witness ==
    /\ DistanceComputed
    /\ NonZeroInRange # {}
    /\ LastRunStart > SetMin(NonZeroInRange)
    /\ dist_row.stableDetDist # dist_row.firstDetDist

\* ------------------------------------------------------------------------
\* Properties of the calibration scaling
\* ------------------------------------------------------------------------

\* _apply_calibration_scaling has run at least twice on a table that was
\* loaded with every value in the 0-1 range
ScaledTwice ==
    /\ cal_applied >= 2
    /\ ~cal_extracted
    /\ in_unit_range(cal_loaded)

\* C26: applying Config._apply_calibration_scaling a second time to the
\* already rescaled PedalPosProIncrease_Th table leaves the table unchanged,
\* for every table whose values start in the 0-1 range.
C26_RescaleIdempotent == ScaledTwice => cal_y = cal_first

\* ------------------------------------------------------------------------
\* Further properties of the event boundary detectors
\* ------------------------------------------------------------------------

FcwCallOver == detector = "fcw" /\ det_pc # "ready"

\* C27: detect_fcw_events completes without error and returns start and end
\* lists of equal length for every non-empty request sequence over
\* {0, 1, 2, 3}.
C27_FcwAlwaysReturns ==
    FcwCallOver =>
        /\ det_pc # "raised"
        /\ Len(det_out[1]) = Len(det_out[2])

AebReturned == detector = "aeb" /\ det_pc = "returned"

\* C28: the events returned by detect_aeb_events are in time order and do not
\* overlap: each event's end time is not later than the next event's start
\* time.
C28_AebEventsDisjoint ==
    AebReturned =>
        \A k \in 1..(Len(det_out[1]) - 1) :
            /\ det_out[1][k] < det_out[1][k + 1]
            /\ det_out[2][k] <= det_out[1][k + 1]

\* ------------------------------------------------------------------------
\* Properties of the derivative-threshold AEB policy
\* ------------------------------------------------------------------------

DerivExtracted == deriv_pc = "detected" /\ seg_pc = "done"

\* the one-sample changes located as ends (their times)
LocatedEnds == TimesAt(df_time, locate_end(df_decel))

\* C29: the end time combined with the j-th start to build its window is a
\* detected end that occurs after that start, whenever such an end was
\* detected; an end detected before the start is never used for it.
C29_EndUsedFollowsStart ==
    DerivExtracted =>
        \A j \in 1..Len(computed) :
            (j <= Len(end_times) /\ Len(LocatedEnds) > 0) =>
                /\ end_times[j] >= start_times[j]
                /\ computed[j][2] = Min2(end_times[j] + seg_post_time, t_max)

\* the maximal runs of consecutive one-sample changes below start_decel_delta
OnsetRuns ==
    pb_segments({i \in 1..(Len(df_decel) - 1) : below_start_delta(df_decel, i)})

\* C30: one braking onset yields at most one start: no more starts are
\* reported than there are maximal runs of consecutive one-sample changes
\* below start_decel_delta, and none when there is no such change.
C30_OneStartPerOnset ==
    deriv_pc = "detected" => Len(start_times) <= Cardinality(OnsetRuns)

=============================================================================
